---- MODULE Spec2Model ----
(***************************************************************************)
(* Carapace: installed-state reconciliation and install/link engine.       *)
(* The model follows carapace/installer.py (AddonInstaller), the callers   *)
(* in carapace/cli.py and carapace/tui.py, and the tables of               *)
(* carapace/db.py.  The platform is Windows (directory junctions, a        *)
(* case-insensitive file system), the platform the code addresses with     *)
(* `cmd /c mklink /J` and st_file_attributes.                              *)
(***************************************************************************)
EXTENDS Integers, Sequences, FiniteSets, TLC

(***************************************************************************)
(* Bounds of the model.                                                    *)
(***************************************************************************)
MaxRows == 3

\* operations in one run of the whole engine
MaxSteps == 3

\* operations in one run of the reconciler with the user's changes on disk
MaxFsSteps == 5

\* catalog rows, and operations on the catalog in one run
MaxCatRows == 3

MaxCatSteps == 3

\* worker threads of the TUI running at once
MaxWorkers == 2

\* operations in one run of everything that writes to the two tables
MaxAllSteps == 2

\* installs in one run over the source trees, and directories in a source tree
MaxLinkSteps == 2

MaxDirs == 2

\* commands in one run against a remote
MaxNetSteps == 3

(***************************************************************************)
(* Strings.  TLC cannot index a string, so every string the model uses is  *)
(* listed here with its characters; the string functions of the code       *)
(* (lower, replace, rstrip, in) are computed on the characters.            *)
(***************************************************************************)
NoUrl == ""

UFoo == "https://github.com/a/Foo"

UFooG == "git://GitHub.com/a/foo.git/"

UBar == "https://github.com/a/Bar"

Chars(s) ==
  CASE s = "" -> <<>>
  [] s = "Foo" -> <<"F", "o", "o">>
  [] s = "foo" -> <<"f", "o", "o">>
  [] s = "Bar" -> <<"B", "a", "r">>
  [] s = "Foo.backup" -> <<"F", "o", "o", ".", "b", "a", "c", "k", "u", "p">>
  [] s = "Bar.backup" -> <<"B", "a", "r", ".", "b", "a", "c", "k", "u", "p">>
  [] s = "foo.backup" -> <<"f", "o", "o", ".", "b", "a", "c", "k", "u", "p">>
  [] s = "unknown" -> <<"u", "n", "k", "n", "o", "w", "n">>
  [] s = "1.2" -> <<"1", ".", "2">>
  [] s = "1.3" -> <<"1", ".", "3">>
  [] s = "https://github.com/a/Foo" -> <<"h", "t", "t", "p", "s", ":", "/", "/", "g", "i", "t", "h", "u", "b", ".", "c", "o", "m", "/", "a", "/", "F", "o", "o">>
  [] s = "git://GitHub.com/a/foo.git/" -> <<"g", "i", "t", ":", "/", "/", "G", "i", "t", "H", "u", "b", ".", "c", "o", "m", "/", "a", "/", "f", "o", "o", ".", "g", "i", "t", "/">>
  [] s = "https://github.com/a/Bar" -> <<"h", "t", "t", "p", "s", ":", "/", "/", "g", "i", "t", "h", "u", "b", ".", "c", "o", "m", "/", "a", "/", "B", "a", "r">>

UpperLetters == <<"A","B","C","D","E","F","G","H","I","J","K","L","M","N","O","P","Q","R","S","T","U","V","W","X","Y","Z">>

LowerLetters == <<"a","b","c","d","e","f","g","h","i","j","k","l","m","n","o","p","q","r","s","t","u","v","w","x","y","z">>

\* str.lower() on one character
LowerChar(c) ==
  IF \E i \in 1..26 : UpperLetters[i] = c
  THEN LowerLetters[CHOOSE i \in 1..26 : UpperLetters[i] = c]
  ELSE c

\* str.lower()
LowerSeq(s) == [i \in 1..Len(s) |-> LowerChar(s[i])]

\* s[from:]
DropFirst(s, n) == IF n >= Len(s) THEN <<>> ELSE SubSeq(s, n + 1, Len(s))

\* s.startswith(pat)
StartsWith(s, pat) == Len(s) >= Len(pat) /\ SubSeq(s, 1, Len(pat)) = pat

RECURSIVE Replace(_, _)
\* s.replace(pat, ''): every non-overlapping occurrence, left to right
Replace(s, pat) ==
  IF s = <<>> THEN <<>>
  ELSE IF StartsWith(s, pat) THEN Replace(DropFirst(s, Len(pat)), pat)
  ELSE <<Head(s)>> \o Replace(Tail(s), pat)

RECURSIVE RStrip(_, _)
\* s.rstrip(chars): drops trailing characters while they are in the set
RStrip(s, chars) ==
  IF s # <<>> /\ s[Len(s)] \in chars THEN RStrip(SubSeq(s, 1, Len(s) - 1), chars)
  ELSE s

RECURSIVE Contains(_, _)
\* pat in s
Contains(s, pat) ==
  IF Len(s) < Len(pat) THEN FALSE
  ELSE StartsWith(s, pat) \/ Contains(Tail(s), pat)

\* the key of a name: name.lower(); also the key of a directory entry on the
\* case-insensitive file system
NameLower(n) == LowerSeq(Chars(n))

\* the names and the URLs of the model
Names == {"Foo", "foo", "Bar", "Foo.backup", "Bar.backup", "foo.backup", ""}

Urls == {NoUrl, UFoo, UFooG, UBar}

\* NameLower, tabulated once
KeyTable == [n \in Names |-> NameLower(n)]

Key(n) == KeyTable[n]

\* _normalize_repo_url, on the characters of the URL
NormalizeChars(u) ==
  IF u = <<>> THEN <<>>
  ELSE LET a == Replace(u, <<"h", "t", "t", "p", "s", ":", "/", "/">>)
           b == Replace(a, <<"h", "t", "t", "p", ":", "/", "/">>)
           c == Replace(b, <<"g", "i", "t", ":", "/", "/">>)
           d == RStrip(RStrip(c, {"/"}), {".", "g", "i", "t"})
       IN  LowerSeq(d)

\* NormalizeChars, tabulated once
NormalizeTable == [u \in Urls |-> NormalizeChars(Chars(u))]

_normalize_repo_url(url) == NormalizeTable[url]

(***************************************************************************)
(* Data.                                                                   *)
(*   catalog   rows of table addons (db.py), in rowid order                *)
(*   installed rows of table installed (db.py), in rowid order; committed  *)
(*   root      the entries of the add-on root directory                    *)
(*   repos     the staging checkouts under <root>/.repos                   *)
(*   reposDir  whether <root>/.repos exists                                *)
(*   op        the last operation and what it returned                     *)
(*   budget    number of operations left in this run                       *)
(*   norm      the URLs handed to _normalize_repo_url and what it returned *)
(*   workers   the batch workers of the TUI and where each one stands      *)
(*   call      the command that is running against a remote, if any        *)
(***************************************************************************)
VARIABLES catalog, installed, root, repos, reposDir, op, budget, norm, workers, call

vars == <<catalog, installed, root, repos, reposDir, op, budget, norm, workers, call>>

\* a path is <root>/name or <root>/.repos/name
RootPath(n) == [area |-> "root", name |-> n]

ReposPath(n) == [area |-> "repos", name |-> n]

NoTarget == [repo |-> "", sub |-> ""]

\* layouts of a source tree: a manifest at the root, and the immediate
\* sub-directories that hold a manifest named after the directory
LayoutRoot == [rootToc |-> TRUE, subs |-> <<>>]

LayoutMulti == [rootToc |-> FALSE, subs |-> <<"Foo", "Bar">>]

LayoutNone == [rootToc |-> FALSE, subs |-> <<>>]

Layouts == {LayoutRoot, LayoutMulti, LayoutNone}

SeqToSet(s) == {s[i] : i \in 1..Len(s)}

\* the world the installer works on
World == [installed |-> installed, root |-> root, repos |-> repos, reposDir |-> reposDir]

\* the directory entry of the root with this name (case-insensitive), as a set
RootEntries(w, n) == {e \in w.root : Key(e.name) = Key(n)}

\* the staging checkout with this name (case-insensitive), as a set
RepoEntries(w, n) == {c \in w.repos : Key(c.name) = Key(n)}

\* what a junction resolves to: the set of the contents of its target
\* (empty when the target is gone)
JunctionContent(w, t) ==
  {[toc |-> IF t.sub = "" THEN c.layout.rootToc ELSE TRUE,
    git |-> IF t.sub = "" THEN c.url ELSE NoUrl,
    version |-> c.version] :
     c \in {c \in RepoEntries(w, t.repo) : t.sub = "" \/ t.sub \in SeqToSet(c.layout.subs)}}

\* the contents seen through a root entry (follows the junction)
EntryContent(w, e) ==
  IF e.kind = "junction" THEN JunctionContent(w, e.target)
  ELSE {[toc |-> e.toc, git |-> e.git, version |-> e.version]}

\* Path.exists(): follows links, false for a junction whose target is gone
PathExists(w, p) ==
  IF p.area = "repos" THEN w.reposDir /\ RepoEntries(w, p.name) # {}
  ELSE \E e \in RootEntries(w, p.name) : EntryContent(w, e) # {}

\* the manifest version of the folder at a root path (_get_addon_version)
_get_addon_version(w, n) ==
  LET cs == UNION {EntryContent(w, e) : e \in RootEntries(w, n)}
  IN  IF \E c \in cs : c.toc THEN (CHOOSE c \in cs : c.toc).version ELSE "unknown"

(***************************************************************************)
(* Identity resolution.                                                    *)
(***************************************************************************)
LiveCatalog == {i \in 1..Len(catalog) : ~catalog[i].deleted}

\* _build_repo_cache followed by cache.get(normalized): the cache is a dict
\* filled in row order from the primary URL, so the last live row with that
\* normalized URL supplies the name
_build_repo_cache(normalized) ==
  LET S == {i \in LiveCatalog : catalog[i].repo_url # NoUrl
                                /\ _normalize_repo_url(catalog[i].repo_url) = normalized}
  IN  IF S = {} THEN "" ELSE catalog[CHOOSE i \in S : \A j \in S : j <= i].name

\* _match_by_folder_name: the first live row whose alias list holds the name
_match_by_folder_name(folder) ==
  LET S == {i \in LiveCatalog : folder \in catalog[i].folder_names}
  IN  IF S = {} THEN "" ELSE catalog[CHOOSE i \in S : \A j \in S : i <= j].name

\* the result of scan_addon_directory for one entry of the root
ScanOf(w, e) ==
  LET c == CHOOSE c \in EntryContent(w, e) : TRUE
      byUrl == IF c.git # NoUrl THEN _build_repo_cache(_normalize_repo_url(c.git)) ELSE ""
      matched == IF byUrl # "" THEN byUrl ELSE _match_by_folder_name(e.name)
  IN  [folder |-> e.name, git_url |-> c.git, matched_addon |-> matched, path |-> RootPath(e.name)]

\* iterdir() order of the folder names
AllNames == <<"Bar", "Bar.backup", "Foo", "foo", "Foo.backup", "foo.backup">>

NameIndex(n) == CHOOSE i \in 1..Len(AllNames) : AllNames[i] = n

RECURSIVE SortByName(_)
SortByName(S) ==
  IF S = {} THEN <<>>
  ELSE LET m == CHOOSE e \in S : \A f \in S : NameIndex(e.name) <= NameIndex(f.name)
       IN  <<m>> \o SortByName(S \ {m})

\* scan_addon_directory: one result per directory of the root (a junction with
\* a target counts) that holds a manifest
scan_addon_directory(w) ==
  LET S == {e \in w.root : \E c \in EntryContent(w, e) : c.toc}
      es == SortByName(S)
  IN  [i \in 1..Len(es) |-> ScanOf(w, es[i])]

(***************************************************************************)
(* Installed-State Store.                                                  *)
(***************************************************************************)
Row(n, v, p, u) ==
  [name |-> n, version |-> v, path |-> p, enabled |-> TRUE, url |-> u, deleted |-> FALSE]

\* the rows SELECT ... WHERE deleted_at_utc IS NULL returns
LiveRows(rows) == {i \in 1..Len(rows) : ~rows[i].deleted}

\* get_installed_addons: a dict keyed by name.lower(); of the live rows with
\* one key the last one read stays in the dict.  The dict is given as the set
\* of the row numbers it holds.
get_installed_addons(rows) ==
  {i \in LiveRows(rows) : \A j \in LiveRows(rows) : Key(rows[j].name) = Key(rows[i].name) => j <= i}

\* is_installed
is_installed(rows, n) == \E i \in get_installed_addons(rows) : Key(rows[i].name) = Key(n)

\* installed.get(name.lower()): the row number, 0 when there is none
InstalledGet(rows, n) ==
  LET S == {i \in get_installed_addons(rows) : Key(rows[i].name) = Key(n)}
  IN  IF S = {} THEN 0 ELSE CHOOSE i \in S : TRUE

\* UPDATE installed SET path, source_repo_url WHERE name = ? AND deleted_at_utc IS NULL
\* (SQLite compares the name case-sensitively)
UpdatePathUrl(rows, n, p, u) ==
  [i \in 1..Len(rows) |->
     IF rows[i].name = n /\ ~rows[i].deleted THEN [rows[i] EXCEPT !.path = p, !.url = u]
     ELSE rows[i]]

\* a slip: DELETE FROM installed WHERE name = ? AND deleted_at_utc IS NULL
SoftDelete_physical(rows, n) == SelectSeq(rows, LAMBDA r : ~(r.name = n /\ ~r.deleted))

\* UPDATE installed SET deleted_at_utc = now WHERE name = ? AND deleted_at_utc IS NULL
SoftDelete(rows, n) ==
  [i \in 1..Len(rows) |->
     IF rows[i].name = n /\ ~rows[i].deleted THEN [rows[i] EXCEPT !.deleted = TRUE]
     ELSE rows[i]]

(***************************************************************************)
(* Reconciler: sync_installed_state.                                       *)
(***************************************************************************)
RECURSIVE SyncDisk(_, _, _, _)
\* the loop over the folders found on disk; db is the snapshot taken before
\* the loop (the rows as they were, and the dict of them)
SyncDisk(db, scans, rows, found) ==
  IF scans = <<>> THEN [rows |-> rows, found |-> found]
  ELSE LET info == Head(scans)
           addon_name == IF info.matched_addon # "" THEN info.matched_addon ELSE info.folder
       IN  IF ~is_installed(db, addon_name)
           THEN SyncDisk(db, Tail(scans),
                         Append(rows, Row(addon_name, "unknown", info.path, info.git_url)),
                         found + 1)
           ELSE IF info.git_url # NoUrl /\ info.matched_addon # ""
                THEN SyncDisk(db, Tail(scans),
                              UpdatePathUrl(rows, addon_name, info.path, info.git_url), found)
                ELSE SyncDisk(db, Tail(scans), rows, found)

RECURSIVE SyncRemoved(_, _, _, _, _)
\* the loop over the snapshot: records whose stored path is gone
SyncRemoved(w, db, todo, rows, removed) ==
  IF todo = {} THEN [rows |-> rows, removed |-> removed]
  ELSE LET i == CHOOSE i \in todo : \A j \in todo : i <= j
       IN  IF ~PathExists(w, db[i].path)
           THEN SyncRemoved(w, db, todo \ {i}, SoftDelete(rows, db[i].name), removed + 1)
           ELSE SyncRemoved(w, db, todo \ {i}, rows, removed)

\* what sync_installed_state returns and whether it commits (lines 229-232)
SyncResult(disk, gone) ==
  [rows |-> gone.rows, found |-> disk.found, removed |-> gone.removed,
   commit |-> (disk.found > 0 \/ gone.removed > 0)]

\* the second loop of sync_installed_state, run on the rows the first loop left
SyncGone(w, db, disk) ==
  SyncResult(disk, SyncRemoved(w, db, get_installed_addons(db), disk.rows, 0))

\* sync_installed_state on a connection whose pending changes are w.installed;
\* rows is what the connection sees afterwards, commit whether it committed
sync_installed_state(w) ==
  SyncGone(w, w.installed, SyncDisk(w.installed, scan_addon_directory(w), w.installed, 0))

\* a slip: a reconciler that also clears away root entries holding no manifest
CloseDb_prune(w, r) ==
  [w |-> [w EXCEPT !.installed = IF r.commit THEN r.rows ELSE w.installed,
                   !.root = {e \in w.root : \E c \in EntryContent(w, e) : c.toc}],
   found |-> r.found, removed |-> r.removed]

\* closing the connection drops what was not committed
CloseDb(w, r) ==
  [w |-> [w EXCEPT !.installed = IF r.commit THEN r.rows ELSE w.installed],
   found |-> r.found, removed |-> r.removed]

\* a caller that opens a connection, reconciles and closes it (cli list, info,
\* installed --rescan; tui load_installed_addons)
ReconcileAndClose(w) == CloseDb(w, sync_installed_state(w))

(***************************************************************************)
(* Install/Link Engine.                                                    *)
(***************************************************************************)
\* f"{folder_name}.backup"
BackupName(n) ==
  CASE n = "Foo" -> "Foo.backup" [] n = "Bar" -> "Bar.backup" [] n = "foo" -> "foo.backup"

\* SELECT repo_url, override_url FROM addons WHERE name = ? (first row, deleted
\* rows included), then override_url or repo_url
CatalogUrl(n) ==
  LET S == {i \in 1..Len(catalog) : catalog[i].name = n}
  IN  IF S = {} THEN NoUrl
      ELSE LET r == catalog[CHOOSE i \in S : \A j \in S : i <= j]
           IN  IF r.override_url # NoUrl THEN r.override_url ELSE r.repo_url

\* mark_installed: updates the first live row with exactly this name, else
\* inserts a row; commits
mark_installed(rows, n, v, u, p) ==
  LET S == {i \in LiveRows(rows) : rows[i].name = n}
  IN  IF S # {}
      THEN LET k == CHOOSE i \in S : \A j \in S : i <= j
           IN  [rows EXCEPT ![k].version = v, ![k].url = u]
      ELSE Append(rows, Row(n, v, p, u))

\* _get_github_release_url returns a download URL only for a github.com or
\* gitlab.com URL of the form host/owner/repo (the test is case-sensitive)
ArchiveHost(u) ==
  \/ Contains(Chars(u), <<"g", "i", "t", "h", "u", "b", ".", "c", "o", "m", "/", "a", "/">>)
  \/ Contains(Chars(u), <<"g", "i", "t", "l", "a", "b", ".", "c", "o", "m", "/", "a", "/">>)

\* ArchiveHost, tabulated once
ArchiveTable == [u \in Urls |-> ArchiveHost(u)]

HasArchiveUrl(u) == ArchiveTable[u]

\* the occupant of <root>/folder is moved to <root>/folder.backup, a previous
\* backup is deleted
MoveToBackup(w, folder) ==
  LET b == BackupName(folder)
      kept == {e \in w.root : Key(e.name) # Key(b) /\ Key(e.name) # Key(folder)}
  IN  [w EXCEPT !.root = kept \cup {[e EXCEPT !.name = b] : e \in RootEntries(w, folder)}]

\* one round of the loop of _link_subfolders with _create_junction: link
\* <root>/folder to the target.  raised: an exception left the function.
LinkOne(w, folder, target, fails) ==
  LET exists == PathExists(w, RootPath(folder))
      isDir == \E e \in RootEntries(w, folder) : e.kind = "dir"
      w1 == IF exists /\ isDir THEN MoveToBackup(w, folder) ELSE w
      \* _create_junction: a junction that resolves is removed first
      w2 == IF PathExists(w1, RootPath(folder))
            THEN [w1 EXCEPT !.root = {e \in w1.root : Key(e.name) # Key(folder)}]
            ELSE w1
      link == [name |-> folder, kind |-> "junction", toc |-> FALSE, git |-> NoUrl,
               version |-> "unknown", target |-> target]
      \* rmtree refuses a junction as the old backup, and the move fails on it
      badBackup == exists /\ isDir /\ \E e \in RootEntries(w, BackupName(folder)) : e.kind = "junction"
  IN  IF fails \/ badBackup THEN [w |-> w, raised |-> TRUE]
      \* a junction whose target is gone is still in the way: mklink fails and
      \* so does the copy that replaces it
      ELSE IF RootEntries(w2, folder) # {} THEN [w |-> w2, raised |-> TRUE]
      ELSE [w |-> [w2 EXCEPT !.root = w2.root \cup {link}], raised |-> FALSE]

\* what _link_subfolders links: the sub-add-ons of _scan_git_subfolders, or the
\* checkout itself under the add-on's name when there are none
LinkTargets(layout, addon_name) ==
  IF layout.subs = <<>> THEN <<[folder |-> addon_name, target |-> [repo |-> addon_name, sub |-> ""]]>>
  ELSE [i \in 1..Len(layout.subs) |->
          [folder |-> layout.subs[i], target |-> [repo |-> addon_name, sub |-> layout.subs[i]]]]

RECURSIVE _link_subfolders(_, _, _, _)
\* the loop of _link_subfolders after round i: an exception ends it
LinkNext(r, links, i, raiseAt) ==
  IF r.raised THEN r ELSE _link_subfolders(r.w, links, i + 1, raiseAt)

_link_subfolders(w, links, i, raiseAt) ==
  IF i > Len(links) THEN [w |-> w, raised |-> FALSE]
  ELSE LinkNext(LinkOne(w, links[i].folder, links[i].target, i = raiseAt), links, i, raiseAt)

RECURSIVE MarkLinked(_, _, _, _, _)
\* the loop of install_addon_git that registers every linked folder
MarkLinked(w, links, i, addon_name, url) ==
  IF i > Len(links) THEN w
  ELSE MarkLinked([w EXCEPT !.installed =
                     mark_installed(w.installed, links[i].folder,
                                    _get_addon_version(w, links[i].folder), url,
                                    ReposPath(addon_name))],
                  links, i + 1, addon_name, url)

RECURSIVE ZipFolders(_, _, _, _, _, _)
\* the loop of install_addon_zip over the add-on folders of the archive
ZipFolders(w, folders, i, addon_name, url, env) ==
  IF i > Len(folders) THEN [w |-> w, ok |-> TRUE]
  ELSE LET folder == folders[i]
           b == BackupName(folder)
           exists == PathExists(w, RootPath(folder))
           \* rmtree refuses a junction as the old backup, and the move fails on it
           badBackup == exists /\ \E e \in RootEntries(w, b) : e.kind = "junction"
           w1 == IF exists THEN MoveToBackup(w, folder) ELSE w
           copy == [name |-> folder, kind |-> "dir", toc |-> TRUE, git |-> NoUrl,
                    version |-> env.zipVersion, target |-> NoTarget]
           w2 == [w1 EXCEPT !.root = w1.root \cup {copy}]
           w3 == [w2 EXCEPT !.installed =
                    mark_installed(w2.installed, addon_name, _get_addon_version(w2, folder),
                                   url, RootPath(folder))]
       IN  IF i = env.zipRaiseAt \/ badBackup THEN [w |-> w, ok |-> FALSE]
           \* copytree fails when the destination name is taken
           ELSE IF RootEntries(w1, folder) # {} THEN [w |-> w1, ok |-> FALSE]
           ELSE ZipFolders(w3, folders, i + 1, addon_name, url, env)

install_addon_zip(w, addon_name, repo_url, env) ==
  LET url == IF repo_url # NoUrl THEN repo_url ELSE CatalogUrl(addon_name)
  IN  IF url = NoUrl THEN [w |-> w, ok |-> FALSE, url |-> NoUrl, via |-> ""]
      ELSE IF ~HasArchiveUrl(url) THEN [w |-> w, ok |-> FALSE, url |-> url, via |-> ""]
      ELSE IF env.zip # "ok" \/ env.zipFolders = <<>> THEN [w |-> w, ok |-> FALSE, url |-> url, via |-> ""]
      ELSE LET r == ZipFolders(w, env.zipFolders, 1, addon_name, url, env)
           IN  [w |-> r.w, ok |-> r.ok, url |-> url, via |-> "zip"]

\* install_addon_git after _link_subfolders: register the linked folders, or
\* hand over to install_addon_zip when linking raised
AfterLink(lr, links, addon_name, url, env) ==
  IF lr.raised THEN install_addon_zip(lr.w, addon_name, url, env)
  ELSE [w |-> MarkLinked(lr.w, links, 1, addon_name, url), ok |-> TRUE, url |-> url,
        via |-> "link"]

\* a slip: the prior staging copy is not deleted before the clone
CloneAndLink_keep(w, addon_name, url, env) ==
  LET w1 == [w EXCEPT !.reposDir = TRUE]
      checkout == [name |-> addon_name, url |-> url, layout |-> env.layout,
                   version |-> env.version]
      w2 == [w1 EXCEPT !.repos = w1.repos \cup {checkout}]
      links == LinkTargets(env.layout, addon_name)
  IN  IF env.clone # "ok" THEN install_addon_zip(w1, addon_name, url, env)
      ELSE AfterLink(_link_subfolders(w2, links, 1, env.raiseAt), links, addon_name, url, env)

\* install_addon_git once the source URL is known: stage, clone, link,
\* register; any failure on the way hands over to install_addon_zip
CloneAndLink(w, addon_name, url, env) ==
  LET \* _get_repos_path creates .repos; a previous staging copy is deleted
      w1 == [w EXCEPT !.reposDir = TRUE,
                      !.repos = {c \in w.repos : Key(c.name) # Key(addon_name)}]
      checkout == [name |-> addon_name, url |-> url, layout |-> env.layout,
                   version |-> env.version]
      w2 == [w1 EXCEPT !.repos = w1.repos \cup {checkout}]
      links == LinkTargets(env.layout, addon_name)
  IN  IF env.clone # "ok" THEN install_addon_zip(w1, addon_name, url, env)
      ELSE AfterLink(_link_subfolders(w2, links, 1, env.raiseAt), links, addon_name, url, env)

\* a slip: the check for a missing source URL is left out
install_addon_git_unchecked(w, addon_name, repo_url, env) ==
  CloneAndLink(w, addon_name, IF repo_url # NoUrl THEN repo_url ELSE CatalogUrl(addon_name), env)

install_addon_git(w, addon_name, repo_url, env) ==
  LET url == IF repo_url # NoUrl THEN repo_url ELSE CatalogUrl(addon_name)
  IN  IF url = NoUrl THEN [w |-> w, ok |-> FALSE, url |-> NoUrl, via |-> ""]
      ELSE CloneAndLink(w, addon_name, url, env)

\* install_addon with use_git left at its default
install_addon(w, addon_name, repo_url, env) == install_addon_git(w, addon_name, repo_url, env)

\* the inputs of one install from outside: how the clone ends, what the
\* checkout holds, whether a link step raises, how the download ends, what the
\* archive holds, whether a copy step raises
Env(c, l, r, z, zf, zr) ==
  [clone |-> c, layout |-> l, version |-> "1.2", raiseAt |-> r,
   zip |-> z, zipFolders |-> zf, zipVersion |-> "1.3", zipRaiseAt |-> zr]

ZipEnvs(c, l, r) ==
  {Env(c, l, r, "failed", <<>>, 0), Env(c, l, r, "ok", <<"Foo">>, 0),
   Env(c, l, r, "ok", <<"Foo", "Bar">>, 0), Env(c, l, r, "ok", <<"Foo", "Bar">>, 2)}

Envs ==
  {Env("ok", l, 0, "failed", <<>>, 0) : l \in Layouts}
    \cup {Env("ok", LayoutMulti, 2, "failed", <<>>, 0), Env("ok", LayoutMulti, 2, "ok", <<"Foo">>, 0)}
    \cup ZipEnvs("failed", LayoutRoot, 0)
    \cup {Env("timeout", LayoutRoot, 0, "failed", <<>>, 0), Env("timeout", LayoutRoot, 0, "ok", <<"Foo">>, 0)}

\* whether the path of checkout a occurs in a path below checkout b
\* (str(repo_folder) in str(item.resolve())), tabulated once
PrefixTable == [p \in Names \X Names |-> StartsWith(Chars(p[2]), Chars(p[1]))]

\* the real name of the checkout a junction target lies in (Path.resolve)
ResolvedRepo(w, t) ==
  IF RepoEntries(w, t.repo) = {} THEN t.repo ELSE (CHOOSE c \in RepoEntries(w, t.repo) : TRUE).name

\* what the file system does to a removal: nothing, os.rmdir raises (the link
\* is in use), or shutil.rmtree raises even after its onerror handler
RemoveFails == {"none", "rmdir", "rmtree"}

\* remove_addon, the branch for a staging checkout: the junctions that carry
\* the name or whose resolved target contains the path of the checkout (a
\* case-sensitive substring test) are removed, then the checkout.  An error
\* of os.rmdir is passed over (`except: pass`); an error of shutil.rmtree
\* leaves the try block.  error: a removal call raised; raised: it got out.
RemoveCheckout(w, addon_name, fail) ==
  LET mine == {e \in w.root : /\ e.kind = "junction"
                              /\ EntryContent(w, e) # {}
                              /\ \/ e.name = addon_name
                                 \/ PrefixTable[<<addon_name, ResolvedRepo(w, e.target)>>]}
      links == IF fail = "rmdir" THEN w.root ELSE w.root \ mine
  IN  IF fail = "rmtree"
      THEN [w |-> [w EXCEPT !.root = links], raised |-> TRUE, error |-> TRUE]
      ELSE [w |-> [w EXCEPT !.root = links,
                            !.repos = {c \in w.repos : Key(c.name) # Key(addon_name)}],
            raised |-> FALSE, error |-> fail = "rmdir" /\ mine # {}]

\* remove_addon, the branch for an old-style installation: the stored path is
\* removed if it exists, junction or tree.  When os.rmdir raises on the
\* junction the fallback shutil.rmtree refuses the link and its onerror handler
\* returns, so nothing is removed and nothing is raised; when shutil.rmtree
\* raises on a tree the fallback raises again.
RemoveStoredPath(w, p, fail) ==
  LET isLink == p.area = "root" /\ \E e \in RootEntries(w, p.name) : e.kind = "junction"
  IN  IF ~PathExists(w, p) THEN [w |-> w, raised |-> FALSE, error |-> FALSE]
      ELSE IF isLink /\ fail = "rmdir" THEN [w |-> w, raised |-> FALSE, error |-> TRUE]
      ELSE IF ~isLink /\ fail = "rmtree" THEN [w |-> w, raised |-> TRUE, error |-> TRUE]
      ELSE IF p.area = "repos"
      THEN [w |-> [w EXCEPT !.repos = {c \in w.repos : Key(c.name) # Key(p.name)}],
            raised |-> FALSE, error |-> FALSE]
      ELSE [w |-> [w EXCEPT !.root = {e \in w.root : Key(e.name) # Key(p.name)}],
            raised |-> FALSE, error |-> FALSE]

\* remove_addon
\* remove_addon after the removal on disk: the record is soft-deleted unless
\* the removal raised
RemoveRecord(r, addon_name) ==
  IF r.raised THEN [w |-> r.w, ok |-> FALSE, error |-> r.error]
  ELSE [w |-> [r.w EXCEPT !.installed = SoftDelete(r.w.installed, addon_name)], ok |-> TRUE,
        error |-> r.error]

remove_addon(w, addon_name, fail) ==
  LET k == InstalledGet(w.installed, addon_name)
      w1 == [w EXCEPT !.reposDir = TRUE]
  IN  IF k = 0 THEN [w |-> w, ok |-> FALSE, error |-> FALSE]
      ELSE RemoveRecord(IF PathExists(w1, ReposPath(addon_name))
                        THEN RemoveCheckout(w1, addon_name, fail)
                        ELSE RemoveStoredPath(w1, w.installed[k].path, fail),
                        addon_name)

\* SELECT path FROM installed WHERE name = ? AND deleted_at_utc IS NULL: the
\* first such row, 0 when there is none
RowNamed(rows, n) ==
  LET S == {i \in LiveRows(rows) : rows[i].name = n}
  IN  IF S = {} THEN 0 ELSE CHOOSE i \in S : \A j \in S : i <= j

\* UPDATE installed SET enabled = ? WHERE name = ? AND deleted_at_utc IS NULL
SetEnabled(rows, n, b) ==
  [i \in 1..Len(rows) |->
     IF rows[i].name = n /\ ~rows[i].deleted THEN [rows[i] EXCEPT !.enabled = b] ELSE rows[i]]

\* `cmd /c rmdir path`: removes a junction; fails on a directory with contents
Rmdir(w, p) ==
  IF p.area = "root"
  THEN [w EXCEPT !.root = {e \in w.root : ~(Key(e.name) = Key(p.name) /\ e.kind = "junction")}]
  ELSE w

\* whether something occupies the path (a junction without target included)
Occupied(w, p) ==
  IF p.area = "repos" THEN RepoEntries(w, p.name) # {} ELSE RootEntries(w, p.name) # {}

\* CarapaceApp.disable_addon
disable_addon(w, addon_name) ==
  LET k == RowNamed(w.installed, addon_name)
      p == w.installed[k].path
      w1 == IF PathExists(w, p) THEN Rmdir(w, p) ELSE w
  IN  IF k = 0 THEN [w |-> w, ok |-> FALSE]
      ELSE [w |-> [w1 EXCEPT !.installed = SetEnabled(w1.installed, addon_name, FALSE)], ok |-> TRUE]

\* CarapaceApp.enable_addon
enable_addon(w, addon_name) ==
  LET k == RowNamed(w.installed, addon_name)
      p == w.installed[k].path
      w1 == IF PathExists(w, p) THEN Rmdir(w, p) ELSE w
      link == [name |-> p.name, kind |-> "junction", toc |-> FALSE, git |-> NoUrl,
               version |-> "unknown", target |-> [repo |-> p.name, sub |-> ""]]
  IN  IF k = 0 THEN [w |-> w, ok |-> FALSE]
      ELSE IF ~PathExists(w, ReposPath(p.name)) THEN [w |-> w, ok |-> FALSE]
      \* mklink fails when the path is taken (check=True raises)
      ELSE IF Occupied(w1, p) THEN [w |-> w1, ok |-> FALSE]
      ELSE [w |-> [w1 EXCEPT !.root = w1.root \cup {link},
                             !.installed = SetEnabled(w1.installed, addon_name, TRUE)],
            ok |-> TRUE]

(***************************************************************************)
(* The state machine.                                                      *)
(***************************************************************************)
CatRow(n, u, o, f) ==
  [name |-> n, repo_url |-> u, override_url |-> o, folder_names |-> f, deleted |-> FALSE,
   description |-> "d0", tags |-> {"t0"}]

\* the catalog after a sync of the wiki: Foo with a source URL, Bar without
CatalogPlain == <<CatRow("Foo", UFoo, NoUrl, {}), CatRow("Bar", NoUrl, NoUrl, {})>>

\* the same with a folder-name alias from the downloaded database
CatalogAlias == <<CatRow("Foo", UFoo, NoUrl, {}), CatRow("Bar", UBar, NoUrl, {"foo"})>>

\* op: the operation, its name argument, whether it returned success, the
\* counts a reconcile returned, the source URL an install used, whether a
\* remove found the backing path and the staging checkout gone, and whether a
\* removal call on disk raised, the way an install took (link: the staging
\* checkout was linked; zip: the archive was copied), and the way an update
\* took (pull, reinstall, none)
NoOp == [kind |-> "none", name |-> "", ok |-> TRUE, found |-> 0, removed |-> 0, url |-> NoUrl,
         gone |-> FALSE, error |-> FALSE, via |-> "", how |-> ""]

Op(k, n, ok, u) == [NoOp EXCEPT !.kind = k, !.name = n, !.ok = ok, !.url = u]

\* a fresh store (db.py _init_schema) with a synced catalog, an empty root
\* no URL was normalized on its own
NoNorm == [stage |-> "none", a |-> <<>>, b |-> <<>>, ka |-> <<>>, kb |-> <<>>, kka |-> <<>>]

\* a worker thread that has not been started: the operation, its entries
\* (to_install, to_uninstall, the installed add-ons), the position in the loop,
\* success_count, failed, the entries handed to the installer so far, and
\* where the thread stands
NoWorker ==
  [kind |-> "none", entries |-> <<>>, idx |-> 0, success_count |-> 0, failed |-> <<>>,
   attempts |-> <<>>, pc |-> "idle"]

\* no command is running: the command, its name argument, what the remote
\* does (answers, refuses, or stays silent for ever), and whether the command
\* is still running
NoCall == [kind |-> "none", name |-> "", remote |-> "answers", stage |-> "idle"]

\* the worker threads the TUI can have running at once
Threads == 1..MaxWorkers

Fresh ==
  /\ catalog \in {CatalogPlain, CatalogAlias}
  /\ installed = <<>>
  /\ root = {}
  /\ repos = {}
  /\ reposDir = FALSE
  /\ op = NoOp
  /\ norm = NoNorm
  /\ workers = [t \in Threads |-> NoWorker]
  /\ call = NoCall

Init == Fresh /\ budget = MaxSteps

InitFs == Fresh /\ budget = MaxFsSteps

\* the world after an operation
Becomes(w) ==
  /\ Len(w.installed) <= MaxRows
  /\ installed' = w.installed
  /\ root' = w.root
  /\ repos' = w.repos
  /\ reposDir' = w.reposDir

Step ==
  /\ budget > 0
  /\ budget' = budget - 1
  /\ UNCHANGED <<norm, workers, call>>

\* the user puts a folder into the add-on root (copies an add-on in by hand,
\* clones one there, or moves one)
UserCreateFolder ==
  \E n \in {"Foo", "foo", "Bar"}, g \in {NoUrl, UFooG, UBar}, t \in BOOLEAN :
    /\ Step
    /\ (g # NoUrl => t)
    /\ RootEntries(World, n) = {}
    /\ root' = root \cup {[name |-> n, kind |-> "dir", toc |-> t, git |-> g,
                           version |-> "1.2", target |-> NoTarget]}
    /\ op' = Op("fs", n, TRUE, NoUrl)
    /\ UNCHANGED <<catalog, installed, repos, reposDir>>

\* the user deletes an entry of the add-on root
UserDeleteFolder ==
  \E e \in root :
    /\ Step
    /\ root' = root \ {e}
    /\ op' = Op("fs", e.name, TRUE, NoUrl)
    /\ UNCHANGED <<catalog, installed, repos, reposDir>>

\* the user deletes a staging checkout
UserDeleteRepo ==
  \E c \in repos :
    /\ Step
    /\ repos' = repos \ {c}
    /\ op' = Op("fs", c.name, TRUE, NoUrl)
    /\ UNCHANGED <<catalog, installed, root, reposDir>>

\* reconcile, as its callers run it
Reconcile ==
  /\ Step
  /\ \E r \in {ReconcileAndClose(World)} :
         /\ Becomes(r.w)
         /\ op' = [Op("reconcile", "", TRUE, NoUrl) EXCEPT !.found = r.found, !.removed = r.removed]
  /\ UNCHANGED catalog

\* a moved folder: the user renames an entry of the add-on root
UserMoveFolder ==
  \E e \in root, n \in {"Foo", "Bar"} :
    /\ Step
    /\ e.kind = "dir"
    /\ RootEntries(World, n) = {}
    /\ root' = (root \ {e}) \cup {[e EXCEPT !.name = n]}
    /\ op' = Op("fs", n, TRUE, NoUrl)
    /\ UNCHANGED <<catalog, installed, repos, reposDir>>

\* set_override_url: UPDATE addons SET override_url = ? WHERE name = ?
set_override_url ==
  \E n \in {"Foo"}, u \in {UBar} :
    /\ Step
    /\ \E i \in 1..Len(catalog) : catalog[i].name = n /\ catalog[i].override_url # u
    /\ catalog' = [i \in 1..Len(catalog) |->
                     IF catalog[i].name = n THEN [catalog[i] EXCEPT !.override_url = u]
                     ELSE catalog[i]]
    /\ op' = Op("override", n, TRUE, u)
    /\ UNCHANGED <<installed, root, repos, reposDir>>

\* db.get_addons() searched for the name ignoring case: the row number, 0 when
\* there is none
CatalogFind(n) ==
  LET S == {i \in LiveCatalog : Key(catalog[i].name) = Key(n)}
  IN  IF S = {} THEN 0 ELSE CHOOSE i \in S : \A j \in S : i <= j

\* cli.install: the command `carapace install <name>`
cli_install ==
  \E n \in {"foo", "Bar"}, env \in Envs :
    /\ Step
    /\ \E k \in {CatalogFind(n)} :
         IF is_installed(installed, n) \/ k = 0 \/ catalog[k].repo_url = NoUrl
         THEN /\ op' = Op("cli_install", n, FALSE, NoUrl)
              /\ UNCHANGED <<installed, root, repos, reposDir>>
         ELSE \E r \in {install_addon(World, catalog[k].name, catalog[k].repo_url, env)} :
                /\ Becomes(r.w)
                /\ op' = [Op("cli_install", catalog[k].name, r.ok, r.url) EXCEPT !.via = r.via]
    /\ UNCHANGED catalog

\* CarapaceApp.install_selected with one add-on selected (a row of the catalog
\* table or of the installed table); the reload it starts afterwards is the
\* action Reconcile
install_selected ==
  \E n \in {"Foo", "foo", "Bar"}, env \in Envs :
    /\ Step
    /\ \E r \in {install_addon(World, n, NoUrl, env)} :
         /\ Becomes(r.w)
         /\ op' = [Op("tui_install", n, r.ok, r.url) EXCEPT !.via = r.via]
    /\ UNCHANGED catalog

\* a live record answers to the name, and neither its stored path nor a
\* staging checkout of that name is on disk
BackingGone(w, n) ==
  /\ InstalledGet(w.installed, n) # 0
  /\ ~PathExists(w, w.installed[InstalledGet(w.installed, n)].path)
  /\ ~PathExists(w, ReposPath(n))

\* remove_addon, as CarapaceApp.uninstall_selected calls it for the selected
\* name and cli.remove for the stored name
Remove ==
  \E n \in {"Foo", "foo", "Bar"}, fail \in RemoveFails :
    /\ Step
    /\ \E r \in {remove_addon(World, n, fail)} :
         /\ Becomes(r.w)
         /\ op' = [Op("remove", n, r.ok, NoUrl) EXCEPT !.gone = BackingGone(World, n),
                                                       !.error = r.error]
    /\ UNCHANGED catalog

\* CarapaceApp.toggle_addon_enabled for the selected name
toggle_addon_enabled ==
  \E n \in {"Foo", "Bar"} :
    /\ Step
    /\ \E k \in {RowNamed(installed, n)} \ {0} :
         \E r \in {IF installed[k].enabled THEN disable_addon(World, n)
                    ELSE enable_addon(World, n)} :
           /\ Becomes(r.w)
           /\ op' = Op(IF installed[k].enabled THEN "disable" ELSE "enable", n, r.ok, NoUrl)
    /\ UNCHANGED catalog

Next ==
  \/ UserCreateFolder
  \/ UserDeleteFolder
  \/ UserMoveFolder
  \/ UserDeleteRepo
  \/ set_override_url
  \/ Reconcile
  \/ cli_install
  \/ install_selected
  \/ Remove
  \/ toggle_addon_enabled

Spec == Init /\ [][Next]_vars

\* the reconciler alone, against what the user does to the add-on root
NextFs ==
  \/ UserCreateFolder
  \/ UserDeleteFolder
  \/ UserMoveFolder
  \/ Reconcile

SpecFs == InitFs /\ [][NextFs]_vars

(***************************************************************************)
(* Properties.                                                             *)
(***************************************************************************)
InstallKinds == {"cli_install", "tui_install"}

WorldUnchanged ==
  /\ installed' = installed
  /\ root' = root
  /\ repos' = repos
  /\ reposDir' = reposDir

\* the identity reconcile resolves a scanned folder to
Identity(s) == IF s.matched_addon # "" THEN s.matched_addon ELSE s.folder

\* the live records with this name, ignoring case
LiveNamed(rows, n) == {i \in LiveRows(rows) : Key(rows[i].name) = Key(n)}

\* C1: after a reconcile every manifest-bearing folder of the add-on root has
\* exactly one live record under its resolved identity, ignoring case (so no
\* two live records share a case-insensitive name).
C1_OneRecordPerFolder ==
  op.kind = "reconcile" =>
    \A i \in 1..Len(scan_addon_directory(World)) :
      Cardinality(LiveNamed(installed, Identity(scan_addon_directory(World)[i]))) = 1

\* C2: a reconcile that directly follows a reconcile, with no change on disk in
\* between, returns (0, 0).
C2_SecondReconcileIsZero ==
  [][(op.kind = "reconcile" /\ op'.kind = "reconcile") => (op'.found = 0 /\ op'.removed = 0)]_vars

\* C3: an install that returns failure (clone and archive both failed, also
\* after a sub-add-on was already linked or copied) leaves the Installed-State
\* Store as it was: no record was created or modified.
C3_FailedInstallWritesNothing ==
  [][(op'.kind \in InstallKinds /\ ~op'.ok) => installed' = installed]_vars

\* the live catalog entries whose normalized primary or override URL is the
\* normalized URL g
CatalogByUrl(g) ==
  {k \in LiveCatalog :
     \/ catalog[k].repo_url # NoUrl /\ _normalize_repo_url(catalog[k].repo_url) = _normalize_repo_url(g)
     \/ catalog[k].override_url # NoUrl /\ _normalize_repo_url(catalog[k].override_url) = _normalize_repo_url(g)}

\* C4: a record that reconcile creates for a folder whose normalized VCS URL
\* is the normalized primary or override URL of a live catalog entry carries
\* the name of such a catalog entry, not the name of the folder.
C4_RecordNamedAfterCatalog ==
  [][op'.kind = "reconcile" =>
       \A i \in (Len(installed) + 1)..Len(installed') :
         \A e \in root :
           (/\ installed'[i].path = RootPath(e.name)
            /\ installed'[i].url # NoUrl
            /\ CatalogByUrl(installed'[i].url) # {})
           => \E k \in CatalogByUrl(installed'[i].url) : installed'[i].name = catalog[k].name]_vars

\* the add-on is installed by the linked-checkout strategy and enabled: its
\* live record is as install_addon_git left it, the staging checkout exists
\* and <root>/name is a junction to it
LinkedAndEnabled(w, n) ==
  /\ RowNamed(w.installed, n) # 0
  /\ w.installed[RowNamed(w.installed, n)].enabled
  /\ w.installed[RowNamed(w.installed, n)].path = ReposPath(n)
  /\ PathExists(w, ReposPath(n))
  /\ \E e \in w.root : e.name = n /\ e.kind = "junction" /\ e.target = [repo |-> n, sub |-> ""]

\* C5: for an add-on installed by the linked-checkout strategy and enabled,
\* disable followed by enable succeeds at both steps and ends with the junction
\* <root>/name to the staging checkout present, enabled = true, and the stored
\* version and source URL unchanged.
C5_DisableEnableRestores ==
  \A n \in {"Foo", "Bar"} :
    LinkedAndEnabled(World, n) =>
      LET d == disable_addon(World, n)
          e == enable_addon(d.w, n)
          k == RowNamed(installed, n)
      IN  /\ d.ok
          /\ e.ok
          /\ \E j \in e.w.root : j.name = n /\ j.kind = "junction" /\ j.target = [repo |-> n, sub |-> ""]
          /\ e.w.installed[k].enabled
          /\ e.w.installed[k].version = installed[k].version
          /\ e.w.installed[k].url = installed[k].url

\* C6: remove(name) for a live record whose stored path and staging checkout
\* are both gone from disk returns success and soft-deletes the record that
\* name identifies.
C6_RemoveOfVanishedSucceeds ==
  [][(op'.kind = "remove" /\ BackingGone(World, op'.name))
     => (op'.ok /\ installed'[InstalledGet(installed, op'.name)].deleted)]_vars

\* C7: whenever remove(name) returns success the record it located is
\* soft-deleted: is_installed(name) is false right afterwards, whatever the
\* casing of name.
C7_RemovedMeansNotInstalled ==
  [][(op'.kind = "remove" /\ op'.ok) => ~is_installed(installed', op'.name)]_vars

\* C8: an install of a catalogued add-on whose entry has an override URL uses
\* the override URL as its source, from the command line and from the TUI.
C8_OverrideWins ==
  [][(/\ op'.kind \in InstallKinds
      /\ op'.url # NoUrl
      /\ CatalogFind(op'.name) # 0
      /\ catalog[CatalogFind(op'.name)].override_url # NoUrl)
     => op'.url = catalog[CatalogFind(op'.name)].override_url]_vars

\* the catalog gives the install no source URL for the name: the command line
\* looks at the live entries ignoring case, the installer at the entries of
\* exactly that name
NoSourceUrl(kind, n) ==
  \A k \in 1..Len(catalog) :
    (IF kind = "cli_install" THEN k \in LiveCatalog /\ Key(catalog[k].name) = Key(n)
     ELSE catalog[k].name = n)
    => (catalog[k].repo_url = NoUrl /\ catalog[k].override_url = NoUrl)

\* C9: an install without explicit URL of a name the catalog gives no source
\* URL for returns failure and changes neither the Installed-State Store nor
\* the add-on root (staging area included).
C9_NoUrlInstallFails ==
  [][(op'.kind \in InstallKinds /\ NoSourceUrl(op'.kind, op'.name)) => (~op'.ok /\ WorldUnchanged)]_vars

\* C9 witness: an install of a name without source URL has returned failure
C9_Witness ==
  /\ op.kind = "tui_install"
  /\ NoSourceUrl(op.kind, op.name)
  /\ ~op.ok

\* C10: an install request for an add-on that has a live record (ignoring
\* case) fails and changes nothing: store, staging checkout and links stay as
\* they were, from the command line and from the TUI.
C10_InstalledIsRejected ==
  [][(op'.kind \in InstallKinds /\ is_installed(installed, op'.name)) => (~op'.ok /\ WorldUnchanged)]_vars

\* the plain directories of the add-on root that are not backups themselves
UserDirs(entries) ==
  {e \in entries : e.kind = "dir" /\ e.name \notin {"Foo.backup", "Bar.backup"}}

\* the entry f holds the directory e under the .backup name of e's folder
IsBackupOf(f, e) ==
  /\ f.kind = "dir"
  /\ f.toc = e.toc /\ f.git = e.git /\ f.version = e.version
  /\ \E n \in {"Foo", "Bar"} : Key(n) = Key(e.name) /\ f.name = BackupName(n)

\* the install put a link or a copy where the directory e was
Replaced(e) == e \notin root' /\ \E f \in root' : Key(f.name) = Key(e.name)

\* C11: when an install (link or archive strategy) puts a link or a copy at a
\* path of the add-on root where a plain directory was, that directory is kept
\* under the .backup name: its contents are never deleted outright.
C11_DirectoryKeptAsBackup ==
  [][op'.kind \in InstallKinds
     => \A e \in UserDirs(root) : Replaced(e) => \E f \in root' : IsBackupOf(f, e)]_vars

(***************************************************************************)
(* URL normalization on its own: _normalize_repo_url applied to URLs that  *)
(* are put together from a protocol, a host and path, a suffix and a       *)
(* trailing slash.                                                         *)
(***************************************************************************)
Protocols ==
  {<<>>, <<"h", "t", "t", "p", "s", ":", "/", "/">>, <<"h", "t", "t", "p", ":", "/", "/">>,
   <<"g", "i", "t", ":", "/", "/">>}

\* host and path, as an owner may have typed them
Bodies ==
  {<<"H", ".", "c", "o", "/", "F", "o", "o">>, <<"h", ".", "c", "o", "/", "f", "o", "o", "g">>,
   <<"h", ".", "c", "o", "/", "B", "a", "r">>, <<"h", ".", "c", "o", "/", "t", "i", "g">>,
   <<"h", ".", "c", "o", "/", "a", ".">>}

GitSuffixes == {<<>>, <<".", "g", "i", "t">>, <<".", "G", "I", "T">>}

Slashes == {<<>>, <<"/">>}

\* the two URLs differ only in protocol, letter case, .git suffix and
\* trailing slash
InitUrl ==
  /\ catalog = CatalogPlain
  /\ installed = <<>>
  /\ root = {}
  /\ repos = {}
  /\ reposDir = FALSE
  /\ op = NoOp
  /\ budget = 0
  /\ workers = [t \in Threads |-> NoWorker]
  /\ call = NoCall
  /\ \E body \in Bodies, p1 \in Protocols, p2 \in Protocols, s1 \in GitSuffixes,
        s2 \in GitSuffixes, t1 \in Slashes, t2 \in Slashes, lower \in BOOLEAN :
       norm = [NoNorm EXCEPT !.stage = "input",
                             !.a = p1 \o body \o s1 \o t1,
                             !.b = p2 \o (IF lower THEN LowerSeq(body) ELSE body) \o s2 \o t2]

\* both URLs are normalized
normalize_both ==
  /\ norm.stage = "input"
  /\ norm' = [norm EXCEPT !.stage = "once", !.ka = NormalizeChars(norm.a),
                          !.kb = NormalizeChars(norm.b)]
  /\ UNCHANGED <<catalog, installed, root, repos, reposDir, op, budget, workers, call>>

\* a key is normalized again
normalize_again ==
  /\ norm.stage = "once"
  /\ norm' = [norm EXCEPT !.stage = "twice", !.kka = NormalizeChars(norm.ka)]
  /\ UNCHANGED <<catalog, installed, root, repos, reposDir, op, budget, workers, call>>

NextUrl ==
  \/ normalize_both
  \/ normalize_again

SpecUrl == InitUrl /\ [][NextUrl]_vars

\* C12: two URLs that differ only in protocol prefix, letter case, a trailing
\* slash and a trailing .git suffix (in any letter case) normalize to the same
\* key.
C12_VariantsShareKey == norm.stage \in {"once", "twice"} => norm.ka = norm.kb

\* C13: normalization is idempotent: normalizing a key again returns the key.
C13_NormalizeIdempotent == norm.stage = "twice" => norm.kka = norm.ka

\* the scanned folders that resolve to a catalog entry through their VCS URL
\* or an alias, carry a VCS URL, and are the only folder of that identity
RepairScans(scans) ==
  {i \in DOMAIN scans :
     /\ scans[i].matched_addon # ""
     /\ scans[i].git_url # NoUrl
     /\ \A j \in DOMAIN scans : Key(Identity(scans[j])) = Key(Identity(scans[i])) => j = i}

\* a live record of the folder's identity stores another path or VCS URL
StoredDiffers(rows, s) ==
  \E k \in LiveNamed(rows, s.matched_addon) : rows[k].path # s.path \/ rows[k].url # s.git_url

\* a live record of the folder's identity stores the folder's path and VCS URL
StoredAgrees(rows, s) ==
  \E k \in LiveNamed(rows, s.matched_addon) : rows[k].path = s.path /\ rows[k].url = s.git_url

\* C14: when reconcile finds a folder whose catalog identity has a live record
\* that stores another path or VCS URL, the store holds afterwards (committed)
\* a live record of that identity with the folder's current path and VCS URL,
\* also when the call added and removed nothing.
C14_RepairIsPersisted ==
  [][op'.kind = "reconcile"
     => \A i \in RepairScans(scan_addon_directory(World)) :
          StoredDiffers(installed, scan_addon_directory(World)[i])
            => StoredAgrees(installed', scan_addon_directory(World)[i])]_vars

(***************************************************************************)
(* Catalog resync: the parsed wiki list is written to table addons, by     *)
(* cli.sync and by CarapaceApp.sync_wiki.                                  *)
(***************************************************************************)
\* what the wiki parser hands over for one add-on
WikiAddons ==
  {[name |-> "Foo", repo_url |-> u, description |-> d, tags |-> t] :
     u \in {UFoo, UBar}, d \in {"d0", "d1"}, t \in {{"t0"}, {"t1"}}}

\* the parsed list: one entry, or the same add-on listed twice
WikiLists ==
  {<<a>> : a \in WikiAddons} \cup {<<a, [a EXCEPT !.tags = {"t2"}]>> : a \in WikiAddons}

\* Database.upsert_addon: the first row with this name and this repo_url (or
\* none) gets repo_url, description and tags overwritten, else a row is
\* inserted
upsert_addon(cat, a) ==
  LET S == {i \in 1..Len(cat) :
              cat[i].name = a.name /\ (cat[i].repo_url = a.repo_url \/ cat[i].repo_url = NoUrl)}
  IN  IF S # {}
      THEN [cat EXCEPT ![CHOOSE i \in S : \A j \in S : i <= j] =
              [@ EXCEPT !.repo_url = a.repo_url, !.description = a.description, !.tags = a.tags]]
      ELSE Append(cat, [CatRow(a.name, a.repo_url, NoUrl, {}) EXCEPT
                          !.description = a.description, !.tags = a.tags])

RECURSIVE CliSyncLoop(_, _)
\* cli.sync: every parsed add-on goes to upsert_addon
CliSyncLoop(cat, addons) ==
  IF addons = <<>> THEN cat ELSE CliSyncLoop(upsert_addon(cat, Head(addons)), Tail(addons))

\* sync_wiki, one add-on: a live row of that name with an override URL only
\* gets the tags merged (UPDATE ... WHERE name = ? AND deleted_at_utc IS NULL)
WikiSyncOne(cat, a) ==
  LET S == {i \in 1..Len(cat) : cat[i].name = a.name /\ ~cat[i].deleted}
  IN  IF S # {} /\ cat[CHOOSE i \in S : \A j \in S : i <= j].override_url # NoUrl
      THEN [i \in 1..Len(cat) |->
              IF i \in S THEN [cat[i] EXCEPT !.tags = @ \cup a.tags] ELSE cat[i]]
      ELSE upsert_addon(cat, a)

RECURSIVE WikiSyncLoop(_, _)
WikiSyncLoop(cat, addons) ==
  IF addons = <<>> THEN cat ELSE WikiSyncLoop(WikiSyncOne(cat, Head(addons)), Tail(addons))

\* the catalog store after an operation on it
CatalogBecomes(cat) ==
  /\ Len(cat) <= MaxCatRows
  /\ catalog' = cat
  /\ UNCHANGED <<installed, root, repos, reposDir>>

\* the command `carapace sync`
cli_sync ==
  \E addons \in WikiLists :
    /\ Step
    /\ CatalogBecomes(CliSyncLoop(catalog, addons))
    /\ op' = Op("cli_sync", "", TRUE, NoUrl) @@ [addons |-> addons]

\* CarapaceApp.sync_wiki, when the wiki revision has changed
sync_wiki ==
  \E addons \in WikiLists :
    /\ Step
    /\ CatalogBecomes(WikiSyncLoop(catalog, addons))
    /\ op' = Op("wiki_sync", "", TRUE, NoUrl) @@ [addons |-> addons]

InitCat == Fresh /\ budget = MaxCatSteps

NextCat ==
  \/ set_override_url
  \/ cli_sync
  \/ sync_wiki

SpecCat == InitCat /\ [][NextCat]_vars

\* the tags the list brings for this name
IncomingTags(addons, n) == UNION {addons[i].tags : i \in {j \in DOMAIN addons : addons[j].name = n}}

\* C15: on every catalog resync (cli sync and sync_wiki) a live catalog row
\* whose override URL is set keeps its primary URL, its override URL and its
\* description, and its tags become the union of its tags and the incoming
\* tags for its name.
C15_OverrideRowOnlyGetsTags ==
  [][op'.kind \in {"cli_sync", "wiki_sync"}
     => \A i \in 1..Len(catalog) :
          (~catalog[i].deleted /\ catalog[i].override_url # NoUrl)
            => /\ catalog'[i].repo_url = catalog[i].repo_url
               /\ catalog'[i].override_url = catalog[i].override_url
               /\ catalog'[i].description = catalog[i].description
               /\ catalog'[i].tags = catalog[i].tags \cup IncomingTags(op'.addons, catalog[i].name)]_vars

(***************************************************************************)
(* The batch operations of the TUI.  Each one is a worker thread started   *)
(* by a key press; a thread that is between two calls can be overtaken by  *)
(* any other thread.                                                       *)
(***************************************************************************)
\* what a batch is started on: the marked add-ons in the order the set yields
\* them, or the one selected add-on
BatchLists == {<<"Foo">>, <<"Bar">>, <<"Foo", "Bar">>, <<"Bar", "Foo">>}

\* how an install of a batch can go: the clone succeeds; the clone times out
\* and the download fails; the clone fails and the archive holds Foo
BatchEnvs ==
  {Env("ok", LayoutRoot, 0, "failed", <<>>, 0), Env("timeout", LayoutRoot, 0, "failed", <<>>, 0),
   Env("failed", LayoutRoot, 0, "ok", <<"Foo">>, 0)}

\* a worker that has built its list and stands before its loop
Started(kind, entries) ==
  [NoWorker EXCEPT !.kind = kind, !.entries = entries, !.idx = 1, !.pc = "loop"]

\* the loop body after the installer has returned: success_count += 1 or
\* failed.append(addon_name)
Counted(wk, addon_name, ok) ==
  [wk EXCEPT !.idx = @ + 1,
             !.attempts = Append(@, addon_name),
             !.success_count = IF ok THEN @ + 1 ELSE @,
             !.failed = IF ok THEN @ ELSE Append(@, addon_name),
             !.pc = "loop"]

\* a step of a worker that touches neither the store nor the disk
WorkerStep(t, wk) ==
  /\ workers' = [workers EXCEPT ![t] = wk]
  /\ op' = Op("worker", "", TRUE, NoUrl)
  /\ UNCHANGED <<catalog, installed, root, repos, reposDir, budget, norm, call>>

\* CarapaceApp.install_selected (F2) up to its loop
install_selected_start(t) ==
  \E entries \in BatchLists :
    /\ workers[t].pc = "idle"
    /\ WorkerStep(t, Started("install", entries))

\* the loop of install_selected calls installer.install_addon for the next
\* entry
install_entry_begin(t) ==
  /\ workers[t].kind = "install"
  /\ workers[t].pc = "loop"
  /\ workers[t].idx <= Len(workers[t].entries)
  /\ WorkerStep(t, [workers[t] EXCEPT !.pc = "entry"])

\* installer.install_addon returns and the loop counts the outcome
install_entry_end(t) ==
  \E env \in BatchEnvs :
    /\ workers[t].pc = "entry"
    /\ \E n \in {workers[t].entries[workers[t].idx]} :
         \E r \in {install_addon(World, n, NoUrl, env)} :
           /\ Becomes(r.w)
           /\ op' = [Op("tui_install", n, r.ok, r.url) EXCEPT !.via = r.via]
           /\ workers' = [workers EXCEPT ![t] = Counted(workers[t], n, r.ok)]
    /\ UNCHANGED <<catalog, budget, norm, call>>

\* install_selected after its loop: the store is closed, the marks are
\* cleared, the reload is started and the result is notified
install_selected_finish(t) ==
  /\ workers[t].kind = "install"
  /\ workers[t].pc = "loop"
  /\ workers[t].idx > Len(workers[t].entries)
  /\ WorkerStep(t, [workers[t] EXCEPT !.pc = "done"])

\* CarapaceApp.uninstall_selected (F3): the list is built, then the argument
\* self.show_progress_modal is evaluated; CarapaceTUI defines no such
\* attribute, so the thread ends there with AttributeError
uninstall_selected(t) ==
  \E entries \in BatchLists :
    /\ workers[t].pc = "idle"
    /\ WorkerStep(t, [Started("uninstall", entries) EXCEPT !.pc = "raised"])

\* the names of the live records in store order (self.installed_addons)
RECURSIVE InstalledNames(_, _)
InstalledNames(rows, i) ==
  IF i > Len(rows) THEN <<>>
  ELSE (IF rows[i].deleted THEN <<>> ELSE <<rows[i].name>>) \o InstalledNames(rows, i + 1)

\* CarapaceApp.update_all_addons (F12): with add-ons installed the thread
\* ends at self.show_progress_modal in the same way
update_all_addons(t) ==
  /\ workers[t].pc = "idle"
  /\ LiveRows(installed) # {}
  /\ WorkerStep(t, [Started("update_all", InstalledNames(installed, 1)) EXCEPT !.pc = "raised"])

InitBatch == Fresh /\ budget = 0

NextBatch ==
  \/ \E t \in Threads : install_selected_start(t)
  \/ \E t \in Threads : install_entry_begin(t)
  \/ \E t \in Threads : install_entry_end(t)
  \/ \E t \in Threads : install_selected_finish(t)
  \/ \E t \in Threads : uninstall_selected(t)
  \/ \E t \in Threads : update_all_addons(t)

SpecBatch == InitBatch /\ [][NextBatch]_vars

\* a started thread is scheduled, and the calls the installer makes return
SpecBatchFair ==
  /\ SpecBatch
  /\ \A t \in Threads :
       WF_vars(install_entry_begin(t) \/ install_entry_end(t) \/ install_selected_finish(t))

\* the worker has run its batch to the end: every entry was handed to the
\* installer once, in list order, and each one was counted as a success or as
\* a failure
Completed(wk) ==
  /\ wk.pc = "done"
  /\ wk.attempts = wk.entries
  /\ wk.success_count + Len(wk.failed) = Len(wk.entries)

\* C16: a batch operation (install selected, uninstall selected, update all)
\* that was started always runs to completion, having attempted every entry
\* exactly once in list order, with success_count plus the number of failed
\* names equal to the size of the batch
C16_BatchRunsToCompletion ==
  \A t \in Threads : [](workers[t].pc # "idle" => <>Completed(workers[t]))

\* the add-on a worker is operating on: the entry its loop has handed to the
\* installer and not yet got back
CurrentEntry(wk) == wk.entries[wk.idx]

\* C17: no two worker threads are ever inside an operation on the same add-on
\* (its record, its staging checkout, its links) at the same time
C17_NoOverlapOnAddon ==
  \A s, t \in Threads :
    (s # t /\ workers[s].pc = "entry" /\ workers[t].pc = "entry")
      => Key(CurrentEntry(workers[s])) # Key(CurrentEntry(workers[t]))

\* C18: when a removal call on disk raises inside remove_addon, remove_addon
\* returns failure and the store is left exactly as it was: the record is
\* still live and not soft-deleted
C18_FailedRemovalLeavesRecord ==
  [][(op'.kind = "remove" /\ op'.error) => (~op'.ok /\ installed' = installed)]_vars

\* the live records of an add-on, names compared ignoring case
LiveOf(rows, n) == {i \in LiveRows(rows) : Key(rows[i].name) = Key(n)}

\* the link <root>/n onto the staging checkout of n
LinkOf(n) ==
  [name |-> n, kind |-> "junction", toc |-> FALSE, git |-> NoUrl, version |-> "unknown",
   target |-> [repo |-> n, sub |-> ""]]

\* C19: after a successful linked-checkout install of the catalog entry Foo
\* whose checkout holds a manifest at its root with version 1.2, exactly one
\* live record exists for it, with name Foo, version 1.2 and enabled, and
\* exactly one link <root>/Foo exists, targeting the staging checkout
C19_LinkedInstallOfFoo ==
  [][(/\ op'.kind \in InstallKinds
      /\ op'.ok
      /\ op'.via = "link"
      /\ op'.name = "Foo"
      /\ \E c \in repos' : c.name = "Foo" /\ c.layout = LayoutRoot /\ c.version = "1.2")
     => /\ Cardinality(LiveOf(installed', "Foo")) = 1
        /\ \A i \in LiveOf(installed', "Foo") :
             /\ installed'[i].name = "Foo"
             /\ installed'[i].version = "1.2"
             /\ installed'[i].enabled
        /\ RootEntries(World', "Foo") = {LinkOf("Foo")}]_vars

\* C20: in every reachable state no two live records have names that are
\* equal ignoring case
C20_LiveNamesUniqueIgnoringCase ==
  \A i, j \in LiveRows(installed) : Key(installed[i].name) = Key(installed[j].name) => i = j

(***************************************************************************)
(* Update, and the commands that wait for a remote.                        *)
(***************************************************************************)
\* what the remote of a run does: it answers, it refuses, or it stays silent
\* for ever
Remotes == {"answers", "refuses", "silent"}

\* how `git clone` ends against such a remote; subprocess.run(timeout=60)
\* raises TimeoutExpired on a silent one
CloneOutcome(remote) ==
  CASE remote = "answers" -> "ok" [] remote = "refuses" -> "failed" [] remote = "silent" -> "timeout"

\* the inputs of an install against such a remote
NetEnvs(remote) == {env \in Envs : env.clone = CloneOutcome(remote)}

\* (addon_path / '.git').exists(): a staging checkout, a link onto the root
\* of one, or a folder that is a clone
HasGitDir(w, p) ==
  IF p.area = "repos" THEN PathExists(w, p)
  ELSE \E e \in RootEntries(w, p.name) : \E c \in EntryContent(w, e) : c.git # NoUrl

\* _get_addon_version(addon_path) for a stored path: the first manifest
\* directly in that directory
VersionAt(w, p) ==
  IF p.area = "root" THEN _get_addon_version(w, p.name)
  ELSE IF \E c \in RepoEntries(w, p.name) : c.layout.rootToc
       THEN (CHOOSE c \in RepoEntries(w, p.name) : c.layout.rootToc).version
       ELSE "unknown"

\* the version a successful `git pull` brings
PullVersion == "1.4"

\* the checkout a stored path lies in, as a set of staging checkouts
CheckoutAt(w, p) ==
  IF p.area = "repos" THEN RepoEntries(w, p.name)
  ELSE UNION {RepoEntries(w, e.target.repo) :
                e \in {e \in RootEntries(w, p.name) : e.kind = "junction" /\ e.target.sub = ""}}

\* `git pull` with exit status 0 in the directory of a stored path
Pulled(w, p) ==
  [w EXCEPT !.repos = {IF c \in CheckoutAt(w, p) THEN [c EXCEPT !.version = PullVersion] ELSE c :
                         c \in w.repos},
            !.root = {IF p.area = "root" /\ Key(e.name) = Key(p.name) /\ e.kind = "dir"
                      THEN [e EXCEPT !.version = PullVersion] ELSE e : e \in w.root}]

\* UPDATE installed SET version = ? WHERE name = ? AND deleted_at_utc IS NULL
SetVersion(rows, n, v) ==
  [i \in 1..Len(rows) |->
     IF rows[i].name = n /\ ~rows[i].deleted THEN [rows[i] EXCEPT !.version = v] ELSE rows[i]]

\* update_addon after a pull that exited with 0: the version is read at the
\* stored path and written to the rows of exactly this name
StoreVersion(w, addon_name, p) ==
  [w |-> [w EXCEPT !.installed = SetVersion(w.installed, addon_name, VersionAt(w, p))],
   ok |-> TRUE, url |-> NoUrl, via |-> "", how |-> "pull"]

\* update_addon, the fallback: install_addon with the stored URL
Reinstalled(r) == [w |-> r.w, ok |-> r.ok, url |-> r.url, via |-> r.via, how |-> "reinstall"]

\* update_addon for the record that answers to the name
UpdateRow(w, addon_name, row, pull, env) ==
  IF HasGitDir(w, row.path) /\ pull = "ok" THEN StoreVersion(Pulled(w, row.path), addon_name, row.path)
  ELSE IF row.url # NoUrl THEN Reinstalled(install_addon(w, addon_name, row.url, env))
  ELSE [w |-> w, ok |-> FALSE, url |-> NoUrl, via |-> "", how |-> "none"]

\* update_addon; pull: how `git pull` ends when it ends
update_addon(w, addon_name, pull, env) ==
  IF InstalledGet(w.installed, addon_name) = 0
  THEN [w |-> w, ok |-> FALSE, url |-> NoUrl, via |-> "", how |-> "none"]
  ELSE UpdateRow(w, addon_name, w.installed[InstalledGet(w.installed, addon_name)], pull, env)

\* a command is started against a remote
Begin(kind, n, remote) ==
  /\ budget > 0
  /\ budget' = budget - 1
  /\ call.stage # "running"
  /\ call' = [kind |-> kind, name |-> n, remote |-> remote, stage |-> "running"]
  /\ op' = Op("begin", n, TRUE, NoUrl)
  /\ UNCHANGED <<catalog, installed, root, repos, reposDir, norm, workers>>

\* installer.install_addon(addon_name) is called
install_begin == \E n \in {"Foo", "Bar"}, remote \in Remotes : Begin("install", n, remote)

\* `carapace update <name>` is run
update_begin == \E n \in {"Foo", "foo", "Bar"}, remote \in Remotes : Begin("update", n, remote)

\* `carapace update --check` is run
check_begin == \E remote \in Remotes : Begin("check", "", remote)

\* the running command returns
Returns ==
  /\ call' = [call EXCEPT !.stage = "returned"]
  /\ UNCHANGED <<catalog, budget, norm, workers>>

\* install_addon returns: the clone has ended in one way or the other
install_return ==
  /\ call.stage = "running"
  /\ call.kind = "install"
  /\ \E env \in NetEnvs(call.remote) :
       \E r \in {install_addon(World, call.name, NoUrl, env)} :
         /\ Becomes(r.w)
         /\ op' = [Op("install", call.name, r.ok, r.url) EXCEPT !.via = r.via]
  /\ Returns

\* whether update_addon runs `git pull` for this name
Pulls(w, n) ==
  /\ InstalledGet(w.installed, n) # 0
  /\ HasGitDir(w, w.installed[InstalledGet(w.installed, n)].path)

\* update_addon returns.  `git pull` is run without a timeout: on a silent
\* remote it never ends, and neither does update_addon
update_return ==
  /\ call.stage = "running"
  /\ call.kind = "update"
  /\ ~(Pulls(World, call.name) /\ call.remote = "silent")
  /\ \E env \in NetEnvs(call.remote) :
       \E r \in {update_addon(World, call.name,
                              IF call.remote = "answers" THEN "ok" ELSE "failed", env)} :
         /\ Becomes(r.w)
         /\ op' = [Op("update", call.name, r.ok, r.url) EXCEPT !.via = r.via, !.how = r.how]
  /\ Returns

\* whether check_for_updates runs `git fetch` for some record
Fetches(w) ==
  \E i \in get_installed_addons(w.installed) :
    PathExists(w, w.installed[i].path) /\ HasGitDir(w, w.installed[i].path)

\* check_for_updates returns.  `git fetch` is run without a timeout
check_for_updates ==
  /\ call.stage = "running"
  /\ call.kind = "check"
  /\ ~(Fetches(World) /\ call.remote = "silent")
  /\ op' = Op("check", "", TRUE, NoUrl)
  /\ UNCHANGED <<installed, root, repos, reposDir>>
  /\ Returns

InitNet == Fresh /\ budget = MaxNetSteps

NextNet ==
  \/ install_begin
  \/ install_return
  \/ update_begin
  \/ update_return
  \/ check_begin
  \/ check_for_updates

SpecNet == InitNet /\ [][NextNet]_vars

\* a command that can go on does go on
SpecNetFair == SpecNet /\ WF_vars(install_return \/ update_return \/ check_for_updates)

\* C21: clone, fetch and pull are bounded by a timeout, so install, update
\* and check_for_updates always eventually return even when the remote never
\* answers; and a clone that timed out ends exactly as a clone that exited
\* non-zero ends
C21_NetworkCallsReturn ==
  /\ [](call.stage = "running" => <>(call.stage = "returned"))
  /\ [][(call.kind = "install" /\ call.stage = "running" /\ call.remote = "silent"
           /\ call'.stage = "returned")
        => \E env \in NetEnvs("refuses") :
             World' = install_addon(World, call.name, NoUrl, env).w]_vars

\* C22: update of an installed add-on: when the record is backed by a checkout
\* and the pull succeeds, the version is re-read from the manifest and stored
\* in the record and update returns success; when the pull fails or there is
\* no checkout, update is a full reinstall with the stored source URL and
\* returns what that reinstall returns
C22_UpdatePullsOrReinstalls ==
  [][(/\ call.kind = "update"
      /\ call.stage = "running"
      /\ call'.stage = "returned"
      /\ InstalledGet(installed, call.name) # 0)
     => LET k == InstalledGet(installed, call.name)
        IN  IF HasGitDir(World, installed[k].path) /\ call.remote = "answers"
            THEN /\ op'.ok
                 /\ ~installed'[k].deleted
                 /\ installed'[k].version = VersionAt(World', installed[k].path)
            ELSE \E env \in NetEnvs(call.remote) :
                   \E r \in {install_addon(World, call.name, installed[k].url, env)} :
                     World' = r.w /\ op'.ok = r.ok]_vars

(***************************************************************************)
(* Every operation on the two tables in one run.                           *)
(***************************************************************************)
InitAll == Fresh /\ budget = MaxAllSteps

NextAll ==
  \/ Next
  \/ NextCat
  \/ NextNet

SpecAll == InitAll /\ [][NextAll]_vars

\* every row of the table before is a row of the table after, under the same
\* row id (its place in the table) and with the same name
RowsKept(old, new) ==
  /\ Len(new) >= Len(old)
  /\ \A i \in 1..Len(old) : new[i].name = old[i].name

\* C23: no operation physically deletes a row of the catalog table or of the
\* installed table: over sync, install, reconcile, update, enable/disable and
\* remove the row ids of both tables only grow; a removal only sets the
\* soft-delete mark
C23_NoRowIsDeleted ==
  [][RowsKept(installed, installed') /\ RowsKept(catalog, catalog')]_vars

\* an add-on was removed, and its row is still in the table, marked
C23_Witness ==
  /\ op.kind = "remove"
  /\ op.ok
  /\ \E i \in 1..Len(installed) : installed[i].deleted /\ Key(installed[i].name) = Key(op.name)

\* the records that were live before the step and are soft-deleted after it
SoftDeletedBy(old, new) == {i \in LiveRows(old) : new[i].deleted}

\* C24: reconcile soft-deletes exactly the live records whose stored path does
\* not exist on disk at the time of the call, leaves every record whose path
\* exists live, and returns removedCount equal to the number of records it
\* soft-deleted
C24_ReconcileRemovesExactlyTheMissing ==
  [][op'.kind = "reconcile"
     => /\ SoftDeletedBy(installed, installed')
             = {i \in LiveRows(installed) : ~PathExists(World, installed[i].path)}
        /\ op'.removed = Cardinality(SoftDeletedBy(installed, installed'))]_vars

(***************************************************************************)
(* Source trees: which directories of a checkout are linked.               *)
(***************************************************************************)
\* the directory names _scan_git_subfolders passes over
LibNames == {"Libs", "libs", "Libraries"}

\* a directory of a checkout that holds a manifest (at any depth below the
\* root): its name, and whether the manifest is named after the directory
\* (ignoring case, '-' and '_')
TreeDirs == {[name |-> n, named |-> b] : n \in {"Foo", "Bar", "Libs"}, b \in BOOLEAN}

\* the directories of a tree in rglob order, no two of one name
DirLists ==
  UNION {{ds \in [1..k -> TreeDirs] : \A i, j \in 1..k : ds[i].name = ds[j].name => i = j} :
           k \in 0..MaxDirs}

RECURSIVE _scan_git_subfolders(_, _)
\* _scan_git_subfolders: the directories below the root whose manifest is
\* named after them, library directories left out
_scan_git_subfolders(dirs, i) ==
  IF i > Len(dirs) THEN <<>>
  ELSE (IF dirs[i].name \notin LibNames /\ dirs[i].named THEN <<dirs[i].name>> ELSE <<>>)
         \o _scan_git_subfolders(dirs, i + 1)

\* the layout of a checkout with these directories
LayoutOf(rootToc, dirs) ==
  [rootToc |-> rootToc, subs |-> _scan_git_subfolders(dirs, 1), dirs |-> dirs]

\* install_addon of a catalog entry, the clone succeeding on such a tree
link_install ==
  \E n \in {"Foo", "Bar"}, rootToc \in BOOLEAN, dirs \in DirLists :
    /\ Step
    /\ \E r \in {install_addon(World, n, NoUrl,
                               Env("ok", LayoutOf(rootToc, dirs), 0, "failed", <<>>, 0))} :
         /\ Becomes(r.w)
         /\ op' = [Op("link_install", n, r.ok, r.url) EXCEPT !.via = r.via]
    /\ UNCHANGED catalog

InitLink == Fresh /\ budget = MaxLinkSteps

NextLink == link_install

SpecLink == InitLink /\ [][NextLink]_vars

\* C25: after a successful linked-checkout install every manifest-bearing
\* directory of the checkout whose name is not a shared-library name has a
\* link <root>/<directory name> onto it and a live record with the version of
\* its manifest, whatever the manifest file is called and also when the root
\* of the checkout holds a manifest as well
C25_EveryManifestDirIsLinked ==
  [][(op'.kind = "link_install" /\ op'.ok /\ op'.via = "link")
     => \A c \in RepoEntries(World', op'.name) :
          \A i \in 1..Len(c.layout.dirs) :
            c.layout.dirs[i].name \notin LibNames
              => /\ \E e \in root' : /\ e.kind = "junction"
                                     /\ e.name = c.layout.dirs[i].name
                                     /\ e.target = [repo |-> c.name, sub |-> c.layout.dirs[i].name]
                 /\ \E k \in LiveRows(installed') :
                      /\ installed'[k].name = c.layout.dirs[i].name
                      /\ installed'[k].version = c.version]_vars

\* the links of the add-on root
Junctions(entries) == {e \in entries : e.kind = "junction"}

\* C26: disable and enable change the enabled flag only when the removal or
\* the creation of the link went through: when disable removes no link it
\* leaves the record as it was and reports failure, and when enable leaves no
\* link behind it leaves the record as it was and reports failure
C26_FlagFollowsTheLink ==
  [][/\ (op'.kind = "disable" /\ Junctions(root') = Junctions(root))
          => (~op'.ok /\ installed' = installed)
     /\ (op'.kind = "enable"
           /\ Junctions(RootEntries(World', installed[RowNamed(installed, op'.name)].path.name)) = {})
          => (~op'.ok /\ installed' = installed)]_vars


\* what a reconcile may do to a record: set its path and source URL, or
\* soft-delete it
SameButPathUrlDeleted(a, b) ==
  /\ b.name = a.name
  /\ b.version = a.version
  /\ b.enabled = a.enabled
  /\ (a.deleted => b.deleted)

\* C27: a reconcile never changes the filesystem: the folders and links of the
\* add-on root and the staging checkouts are the same after it as before; it
\* only inserts records, updates their path and source URL, or soft-deletes them
C27_ReconcileLeavesFilesystem ==
  [][op'.kind = "reconcile"
       => /\ root' = root
          /\ repos' = repos
          /\ reposDir' = reposDir
          /\ Len(installed') >= Len(installed)
          /\ \A i \in 1..Len(installed) : SameButPathUrlDeleted(installed[i], installed'[i])]_vars

\* a reconcile that soft-deleted a record on a root that still holds entries
C27_Witness ==
  /\ op.kind = "reconcile"
  /\ op.removed > 0
  /\ root # {}


\* C28: whenever install(name) returns success, is_installed(name) is true
\* immediately afterwards: a live record named name exists, for single-folder
\* and multi-folder sources, by linked checkout and by archive
C28_InstalledAfterInstall ==
  [][(op'.kind \in InstallKinds \cup {"link_install"} /\ op'.ok)
       => is_installed(installed', op'.name)]_vars


(***************************************************************************)
(* Installing, toggling and reconciling.                                   *)
(***************************************************************************)
MaxToggleSteps == 4

InitToggle == Fresh /\ budget = MaxToggleSteps

NextToggle ==
  \/ cli_install
  \/ Reconcile
  \/ toggle_addon_enabled

SpecToggle == InitToggle /\ [][NextToggle]_vars

\* C29: after disable(name) has succeeded, a reconcile leaves the record of
\* name live with enabled = false, so that a later enable(name) still finds it
C29_DisabledSurvivesReconcile ==
  [][(op.kind = "disable" /\ op.ok /\ op'.kind = "reconcile")
       => \E k \in {RowNamed(installed', op.name)} \ {0} : ~installed'[k].enabled]_vars


\* whether the record is one of several sub-add-ons of a linked checkout
SubAddonRecord(w, r) ==
  /\ r.path.area = "repos"
  /\ \E c \in RepoEntries(w, r.path.name) : Len(c.layout.subs) > 1

\* C30: remove(name) only deletes what belongs to name: after the removal of
\* one sub-add-on record of a multi-folder linked install the staging
\* checkout and the links of the other sub-add-ons are intact, that is, the
\* stored path of every record that is still live exists as it did before
C30_RemoveSparesOtherRecords ==
  [][(/\ op'.kind = "remove"
      /\ op'.ok
      /\ \E k \in {RowNamed(installed, op'.name)} \ {0} : SubAddonRecord(World, installed[k]))
       => \A i \in LiveRows(installed') :
            PathExists(World, installed[i].path) => PathExists(World', installed'[i].path)]_vars


\* the links of the add-on root onto the staging checkout of this name
LinksOnto(w, n) == {e \in Junctions(w.root) : Key(e.target.repo) = Key(n)}

\* C31: when update(name) or a reinstall of an installed add-on returns
\* failure (the pull fails, then clone and archive both fail), the previous
\* installation is intact: its staging checkout and its links still exist and
\* the path of its live record still exists on disk
C31_FailedUpdateKeepsInstallation ==
  [][(/\ call.stage = "running"
      /\ call'.stage = "returned"
      /\ call.kind \in {"update", "install"}
      /\ call.remote # "answers"
      /\ ~op'.ok
      /\ InstalledGet(installed, call.name) # 0
      /\ PathExists(World, installed[InstalledGet(installed, call.name)].path))
       => /\ RepoEntries(World, call.name) \subseteq repos'
          /\ LinksOnto(World, call.name) \subseteq root'
          /\ \E k \in {InstalledGet(installed', call.name)} \ {0} :
               PathExists(World', installed'[k].path)]_vars


\* a URL without protocol, in lower case, with no trailing slash and not
\* ending in ".git"
PlainUrl(u) ==
  /\ u # <<>>
  /\ \A p \in Protocols \ {<<>>} : ~Contains(u, p)
  /\ LowerSeq(u) = u
  /\ u[Len(u)] # "/"
  /\ ~(Len(u) >= 4 /\ SubSeq(u, Len(u) - 3, Len(u)) = <<".", "g", "i", "t">>)

\* C32: normalization removes only the literal suffix ".git": a URL without
\* protocol, in lower case, with no trailing slash and not ending in ".git"
\* is its own key, so that repository names that differ (foo and foog, names
\* ending in g, i, t or a dot) never share a key
C32_PlainUrlIsItsOwnKey ==
  norm.stage \in {"once", "twice"}
    => /\ PlainUrl(norm.a) => norm.ka = norm.a
       /\ PlainUrl(norm.b) => norm.kb = norm.b


(***************************************************************************)
(* A reload and an install of one add-on side by side.  Each is a worker   *)
(* thread with a store connection of its own; what one has committed the   *)
(* other sees at its next statement.                                       *)
(***************************************************************************)
\* how the clone of the install can turn out: a single-folder checkout or a
\* multi-folder one
RaceEnvs == {Env("ok", l, 0, "failed", <<>>, 0) : l \in {LayoutRoot, LayoutMulti}}

\* a worker of this kind at this position: the add-on it installs, the folders
\* it linked and the one it registers next, the row its SELECT found, the
\* source URL, and what sync_installed_state read (db_installed, disk_addons)
Single(kind, pc, n) ==
  [kind |-> kind, pc |-> pc, name |-> n, links |-> <<>>, idx |-> 0, existing |-> 0,
   url |-> NoUrl, db_installed |-> <<>>, disk_addons |-> <<>>]

\* a step of such a worker; w is the world it leaves
RaceStep(t, wk, w) ==
  /\ Becomes(w)
  /\ workers' = [workers EXCEPT ![t] = wk]
  /\ op' = Op("worker", "", TRUE, NoUrl)
  /\ UNCHANGED <<catalog, budget, norm, call>>

\* CarapaceApp.load_installed_addons is started: a store connection is opened
load_installed_addons(t) ==
  /\ workers[t].pc = "idle"
  /\ RaceStep(t, Single("load", "sync", ""), World)

\* CarapaceApp._install_single_addon up to the registration: install_addon
\* clones and links; without a source URL it fails and the worker ends
_install_single_addon(t) ==
  \E n \in {"Foo", "Bar"}, env \in RaceEnvs :
    /\ workers[t].pc = "idle"
    /\ \E r \in {install_addon(World, n, NoUrl, env)} :
         IF r.via = "link"
         THEN RaceStep(t, [Single("install", "mark", n) EXCEPT
                             !.links = LinkTargets(env.layout, n), !.idx = 1, !.url = r.url],
                       [r.w EXCEPT !.installed = installed])
         ELSE RaceStep(t, Single("install", "done", n), r.w)

\* mark_installed, the check: SELECT id FROM installed WHERE name = ? AND
\* deleted_at_utc IS NULL
mark_installed_select(t) ==
  /\ workers[t].pc = "mark"
  /\ workers[t].idx <= Len(workers[t].links)
  /\ RaceStep(t, [workers[t] EXCEPT
                    !.existing = RowNamed(installed, workers[t].links[workers[t].idx].folder),
                    !.pc = "insert"],
              World)

\* mark_installed, the write: UPDATE ... WHERE id = ? when the check found a
\* row, else INSERT; commit
MarkWrite(w, wk, folder) ==
  [w EXCEPT !.installed =
     IF wk.existing # 0
     THEN [@ EXCEPT ![wk.existing].version = _get_addon_version(w, folder),
                    ![wk.existing].url = wk.url]
     ELSE Append(@, Row(folder, _get_addon_version(w, folder), ReposPath(wk.name), wk.url))]

mark_installed_write(t) ==
  /\ workers[t].pc = "insert"
  /\ RaceStep(t, [workers[t] EXCEPT !.idx = @ + 1, !.pc = "mark"],
              MarkWrite(World, workers[t], workers[t].links[workers[t].idx].folder))

\* _install_single_addon after a successful install: it reconciles on its
\* own connection
install_then_sync(t) ==
  /\ workers[t].pc = "mark"
  /\ workers[t].idx > Len(workers[t].links)
  /\ RaceStep(t, [workers[t] EXCEPT !.pc = "sync"], World)

\* sync_installed_state reads the store: db_installed = get_installed_addons()
sync_read_store(t) ==
  /\ workers[t].pc = "sync"
  /\ RaceStep(t, [workers[t] EXCEPT !.db_installed = installed, !.pc = "scan"], World)

\* sync_installed_state reads the disk: disk_addons = scan_addon_directory()
sync_read_disk(t) ==
  /\ workers[t].pc = "scan"
  /\ RaceStep(t, [workers[t] EXCEPT !.disk_addons = scan_addon_directory(World), !.pc = "loops"],
              World)

\* the two loops of sync_installed_state and its commit, then db.close()
sync_write(t) ==
  /\ workers[t].pc = "loops"
  /\ \E r \in {SyncGone(World, workers[t].db_installed,
                        SyncDisk(workers[t].db_installed, workers[t].disk_addons, installed, 0))} :
       RaceStep(t, [workers[t] EXCEPT !.pc = "done"],
                [World EXCEPT !.installed = IF r.commit THEN r.rows ELSE installed])

InitRace == Fresh /\ budget = 0

NextRace ==
  \/ \E t \in Threads : load_installed_addons(t)
  \/ \E t \in Threads : _install_single_addon(t)
  \/ \E t \in Threads : mark_installed_select(t)
  \/ \E t \in Threads : mark_installed_write(t)
  \/ \E t \in Threads : install_then_sync(t)
  \/ \E t \in Threads : sync_read_store(t)
  \/ \E t \in Threads : sync_read_disk(t)
  \/ \E t \in Threads : sync_write(t)

SpecRace == InitRace /\ [][NextRace]_vars

\* C33: when a reload (load_installed_addons) and an install of the same
\* add-on run side by side on separate store connections, every interleaving
\* of their check-then-insert steps ends with at most one live record for the
\* add-on
C33_RaceLeavesOneLiveRecord ==
  (\A t \in Threads : workers[t].pc \in {"idle", "done"})
    => \A i, j \in LiveRows(installed) :
         Key(installed[i].name) = Key(installed[j].name) => i = j


\* C34: before the linked-checkout strategy clones, a prior staging copy for
\* the same add-on name is destroyed: after a successful clone the staging
\* directory of the add-on holds the fresh checkout and nothing else, never a
\* mix of old and new
C34_CleanCheckout ==
  [][(op'.kind \in {"install", "update"} /\ op'.via = "link")
       => \E env \in NetEnvs(call.remote) :
            RepoEntries(World', op'.name)
              = {[name |-> op'.name, url |-> op'.url, layout |-> env.layout,
                  version |-> env.version]}]_vars

\* an install by link over a prior multi-folder checkout of the same add-on:
\* the fresh checkout is a single-folder one, and a link of the prior one is
\* still in the root
C34_Witness ==
  /\ op.kind = "install"
  /\ op.ok
  /\ op.via = "link"
  /\ \E c \in RepoEntries(World, op.name) : c.layout.subs = <<>>
  /\ \E e \in Junctions(root) : Key(e.target.repo) = Key(op.name) /\ e.target.sub = "Bar"

====
